---- MODULE Spec2Model ----
(***************************************************************************)
(* Live Drawing Countdown + Announcer (src/main.py).                       *)
(*                                                                         *)
(* The module models the TimerEngine (drift-handling countdown driven by   *)
(* a periodic QTimer callback), the TimerWindow session logic that sits on *)
(* top of it (pose list, current pose, auto-advance, announcer cues), the  *)
(* SoundBank archive export / import and the RecorderController.           *)
(*                                                                         *)
(* Time: the monotonic clock `now` counts clock units, Hz units to the     *)
(* second.  int(now - _last) of the source is (now - last) \div Hz.        *)
(* Qt signals are delivered synchronously (direct connections in a single  *)
(* thread), so a handler and every slot it triggers is one action.         *)
(***************************************************************************)
EXTENDS Integers, Sequences, FiniteSets, TLC

VARIABLES
    now,        \* time.monotonic(), in clock units
    engine,     \* TimerEngine: remaining, running, last (_last), timer (QTimer active)
    win,        \* TimerWindow: poses, current_index, pose_info, display, pose_list, auto_advance
    connected,  \* TRUE when the engine's signals are connected to the TimerWindow slots
    out,        \* history: what the most recent step emitted / requested, in order
    handler,    \* history: name of the most recent step
    hist,       \* history since the most recent TimerEngine.start
    trace,      \* history: events since start_session while the user stayed passive
    wall,       \* the wall clock, in seconds (names import directories)
    fs,         \* the files on disk: path -> content
    bank,       \* cue_files of the SoundBank that is exported
    fresh,      \* cue_files of the SoundBank created to import the archive
    archive,    \* the .soundbank file last written: <<>> or <<zip>>
    exported,   \* history: per cue, the content exported last (0: none)
    rec         \* RecorderController: combo (cue selected), out_path, recording

timervars == <<now, engine, win, connected, out, hist, trace>>
bankvars == <<wall, fs, bank, fresh, archive, exported>>
recvars == <<rec>>
vars == <<now, engine, win, connected, out, handler, hist, trace,
          wall, fs, bank, fresh, archive, exported, rec>>

---------------------------------------------------------------------------
(* Bounds of the model *)

Hz == 2
MaxDur == 2
MaxNow == 4
MaxPoses == 2
MaxSec == 1
MaxMin == 1
MaxCue == 1
MaxByte == 2
MaxWall == 1
MaxLabelMin == 61

Durs == 0..MaxDur

---------------------------------------------------------------------------
(* Events observed by the history variables *)

Tk(v) == [k |-> "tick", v |-> v]
Done == [k |-> "finished"]
Cue(c) == [k |-> "play", cue |-> c]
St(d) == [k |-> "start", secs |-> d]
Call(m, sec) == [k |-> "add_pose", min |-> m, sec |-> sec]

Log(p, e) == [p EXCEPT !.out = Append(@, e)]

---------------------------------------------------------------------------
(* Utilities *)

Digit(n) == <<"0", "1", "2", "3", "4", "5", "6", "7", "8", "9">>[n + 1]

RECURSIVE Dec(_)
Dec(n) == IF n < 10 THEN <<Digit(n)>> ELSE Dec(n \div 10) \o <<Digit(n % 10)>>

\* format spec 02d: at least two digits, zero padded
Pad2(n) == IF n < 10 THEN <<"0">> \o Dec(n) ELSE Dec(n)

\* variant of seconds_to_hhmmss: below an hour the minutes are not padded
seconds_to_hhmmss_short_minutes(total0) ==
    LET total == IF total0 < 0 THEN 0 ELSE total0
        h == total \div 3600
        m == (total % 3600) \div 60
        s == total % 60
    IN  IF h > 0
        THEN Dec(h) \o <<":">> \o Pad2(m) \o <<":">> \o Pad2(s)
        ELSE Dec(m) \o <<":">> \o Pad2(s)

seconds_to_hhmmss(total0) ==
    LET total == IF total0 < 0 THEN 0 ELSE total0
        h == total \div 3600
        m == (total % 3600) \div 60
        s == total % 60
    IN  IF h > 0
        THEN Dec(h) \o <<":">> \o Pad2(m) \o <<":">> \o Pad2(s)
        ELSE Pad2(m) \o <<":">> \o Pad2(s)

---------------------------------------------------------------------------
(* The program state handed through a handler: p = [engine, win, out] *)

Prog == [engine |-> engine, win |-> win, out |-> <<>>]

\* SoundBank.play as seen from the session logic: a playback request for a cue
play(p, cue_key) == Log(p, Cue(cue_key))

update_display(p, secs) == [p EXCEPT !.win.display = seconds_to_hhmmss(secs)]

\* tick_signal.emit(v): the signal, then the connected slot
emit_tick(p, v) ==
    LET q == Log(p, Tk(v))
    IN  IF connected THEN update_display(q, v) ELSE q

\* variant of start: a call on a running engine is ignored
start_unless_running(p, seconds, t) ==
    IF p.engine.running THEN p
    ELSE emit_tick(
            Log([p EXCEPT !.engine = [remaining |-> seconds, running |-> TRUE,
                                      last |-> t, timer |-> TRUE]],
                St(seconds)),
            seconds)

start(p, seconds, t) ==
    emit_tick(
        Log([p EXCEPT !.engine = [remaining |-> seconds, running |-> TRUE,
                                  last |-> t, timer |-> TRUE]],
            St(seconds)),
        seconds)

stop(p) == [p EXCEPT !.engine.running = FALSE, !.engine.timer = FALSE]

\* variant of start_pose: the countdown always gets the first pose's duration
start_pose_first_duration(p, t) ==
    LET pose == p.win.poses[1]
        p1 == [p EXCEPT !.win.pose_info = <<"Pose", p.win.current_index + 1>>]
        p2 == play(p1, "pose_start")
    IN  start(p2, pose, t)

start_pose(p, t) ==
    LET pose == p.win.poses[p.win.current_index + 1]
        p1 == [p EXCEPT !.win.pose_info = <<"Pose", p.win.current_index + 1>>]
        p2 == play(p1, "pose_start")
    IN  start(p2, pose, t)

\* variant of on_pose_finished: the over cue is not played
on_pose_finished_silent(p, t) ==
    IF p.win.auto_advance
    THEN IF p.win.current_index < Len(p.win.poses) - 1
         THEN start_pose([p EXCEPT !.win.current_index = @ + 1], t)
         ELSE [p EXCEPT !.win.pose_info = <<"Session Complete">>]
    ELSE [p EXCEPT !.win.pose_info = <<"Pose Finished (Manual Advance)">>]

on_pose_finished(p, t) ==
    LET p1 == play(p, "over")
    IN  IF p1.win.auto_advance
        THEN IF p1.win.current_index < Len(p1.win.poses) - 1
             THEN start_pose([p1 EXCEPT !.win.current_index = @ + 1], t)
             ELSE [p1 EXCEPT !.win.pose_info = <<"Session Complete">>]
        ELSE [p1 EXCEPT !.win.pose_info = <<"Pose Finished (Manual Advance)">>]

\* finished_signal.emit(): the signal, then the connected slot
emit_finished(p, t) ==
    LET q == Log(p, Done)
    IN  IF connected THEN on_pose_finished(q, t) ELSE q

\* variant of tick: one second is taken off per effective sample, not dt
tick_decrement_one(p, t) ==
    IF ~p.engine.running THEN p
    ELSE LET dt == (t - p.engine.last) \div Hz
         IN  IF dt <= 0 THEN p
             ELSE LET p1 == [p EXCEPT !.engine.last = t,
                                      !.engine.remaining = @ - 1]
                      p2 == emit_tick(p1, p1.engine.remaining)
                  IN  IF p2.engine.remaining <= 0
                      THEN emit_finished(stop(p2), t)
                      ELSE p2

\* variant of tick: the engine is left running when the countdown completes
tick_keeps_running(p, t) ==
    IF ~p.engine.running THEN p
    ELSE LET dt == (t - p.engine.last) \div Hz
         IN  IF dt <= 0 THEN p
             ELSE LET p1 == [p EXCEPT !.engine.last = t,
                                      !.engine.remaining = @ - dt]
                      p2 == emit_tick(p1, p1.engine.remaining)
                  IN  IF p2.engine.remaining <= 0
                      THEN emit_finished(p2, t)
                      ELSE p2

\* variant of tick: no check of the running flag
tick_unguarded(p, t) ==
    LET dt == (t - p.engine.last) \div Hz
    IN  IF dt <= 0 THEN p
        ELSE LET p1 == [p EXCEPT !.engine.last = t,
                                 !.engine.remaining = @ - dt]
                 p2 == emit_tick(p1, p1.engine.remaining)
             IN  IF p2.engine.remaining <= 0
                 THEN emit_finished(stop(p2), t)
                 ELSE p2

\* TimerEngine._tick, the QTimer timeout slot, run at clock value t
tick(p, t) ==
    IF ~p.engine.running THEN p
    ELSE LET dt == (t - p.engine.last) \div Hz
         IN  IF dt <= 0 THEN p
             ELSE LET p1 == [p EXCEPT !.engine.last = t,
                                      !.engine.remaining = @ - dt]
                      p2 == emit_tick(p1, p1.engine.remaining)
                  IN  IF p2.engine.remaining <= 0
                      THEN emit_finished(stop(p2), t)
                      ELSE p2

\* variant of next_pose: past the last pose it wraps to the first
next_pose_wraps(p, t) ==
    IF p.win.current_index < Len(p.win.poses) - 1
    THEN start_pose([p EXCEPT !.win.current_index = @ + 1], t)
    ELSE IF p.win.poses # <<>>
         THEN start_pose([p EXCEPT !.win.current_index = 0], t)
         ELSE p

next_pose(p, t) ==
    IF p.win.current_index < Len(p.win.poses) - 1
    THEN start_pose([p EXCEPT !.win.current_index = @ + 1], t)
    ELSE p

\* variant of start_session: session_start is played after the pose started
start_session_cue_late(p, t) ==
    IF p.win.poses = <<>> THEN p
    ELSE play(start_pose([p EXCEPT !.win.current_index = 0], t), "session_start")

start_session(p, t) ==
    IF p.win.poses = <<>> THEN p
    ELSE start_pose(play([p EXCEPT !.win.current_index = 0], "session_start"), t)

\* variant of add_pose: only a negative total is rejected
add_pose_accepts_zero(p, spin_min, spin_sec) ==
    LET total == spin_min * 60 + spin_sec
    IN  IF total < 0 THEN p
        ELSE [p EXCEPT !.win.poses = Append(@, total),
                       !.win.pose_list = Append(@, seconds_to_hhmmss(total))]

add_pose(p, spin_min, spin_sec) ==
    LET total == spin_min * 60 + spin_sec
    IN  IF total <= 0 THEN p
        ELSE [p EXCEPT !.win.poses = Append(@, total),
                       !.win.pose_list = Append(@, seconds_to_hhmmss(total))]

---------------------------------------------------------------------------
(* SoundBank *)

CUES == <<"session_start", "pose_start", "five_min", "one_min", "thirty_sec", "over">>

CueKeys == {CUES[i] : i \in 1..Len(CUES)}

\* A path is [dir, stem, suffix]; a file name is [stem, suffix].  NoPath is
\* None; NoName is a manifest value that is None (or empty), both falsy.
NoPath == [dir |-> <<>>, stem |-> "", suffix |-> ""]
NoName == [stem |-> "", suffix |-> ""]
ManifestName == [stem |-> "manifest", suffix |-> ".json"]

base_dir == <<"sounds">>

\* str.lower on the suffixes that occur
lower(suffix) ==
    CASE suffix = ".WAV" -> ".wav"
      [] suffix = ".Wav" -> ".wav"
      [] OTHER -> suffix

exists(files, path) == path \in DOMAIN files

write_file(files, path, data) ==
    [q \in DOMAIN files \cup {path} |-> IF q = path THEN data ELSE files[q]]

remove_file(files, path) == [q \in DOMAIN files \ {path} |-> files[q]]

EmptyBank == [c \in CueKeys |-> NoPath]

set_cue_file(cue_files, cue_key, path) == [cue_files EXCEPT ![cue_key] = path]

\* the loop of export_soundbank from cue i on; zf = [assets, cues] holds the
\* entries written and the manifest's cues mapping, both in insertion order
RECURSIVE export_loop(_, _, _, _)
export_loop(i, zf, cue_files, files) ==
    IF i > Len(CUES) THEN zf
    ELSE LET cue_key == CUES[i]
             src == cue_files[cue_key]
         IN  IF src # NoPath /\ exists(files, src)
             THEN LET arc_name == [stem |-> cue_key, suffix |-> lower(src.suffix)]
                  IN  export_loop(i + 1,
                        [assets |-> Append(zf.assets,
                                           [name |-> arc_name, data |-> files[src]]),
                         cues |-> Append(zf.cues,
                                         [key |-> cue_key, name |-> arc_name])],
                        cue_files, files)
             ELSE export_loop(i + 1,
                        [zf EXCEPT !.cues = Append(@, [key |-> cue_key,
                                                      name |-> NoName])],
                        cue_files, files)

\* variant of export_loop: the manifest keeps the suffix as it is on disk
RECURSIVE export_loop_keeps_case(_, _, _, _)
export_loop_keeps_case(i, zf, cue_files, files) ==
    IF i > Len(CUES) THEN zf
    ELSE LET cue_key == CUES[i]
             src == cue_files[cue_key]
         IN  IF src # NoPath /\ exists(files, src)
             THEN LET arc_name == [stem |-> cue_key, suffix |-> lower(src.suffix)]
                  IN  export_loop_keeps_case(i + 1,
                        [assets |-> Append(zf.assets,
                                           [name |-> arc_name, data |-> files[src]]),
                         cues |-> Append(zf.cues,
                                         [key |-> cue_key,
                                          name |-> [stem |-> cue_key,
                                                    suffix |-> src.suffix]])],
                        cue_files, files)
             ELSE export_loop_keeps_case(i + 1,
                        [zf EXCEPT !.cues = Append(@, [key |-> cue_key,
                                                      name |-> NoName])],
                        cue_files, files)

\* variant of export_soundbank built on it
export_soundbank_keeps_case(cue_files, files) ==
    LET zf == export_loop_keeps_case(1, [assets |-> <<>>, cues |-> <<>>],
                                     cue_files, files)
    IN  [assets |-> zf.assets,
         manifest |-> <<[version |-> 1, cues |-> zf.cues]>>]

\* variant of export_soundbank: a cue without an asset gets no manifest entry
export_soundbank_omits_empty(cue_files, files) ==
    LET zf == export_loop(1, [assets |-> <<>>, cues |-> <<>>], cue_files, files)
    IN  [assets |-> zf.assets,
         manifest |-> <<[version |-> 1,
                         cues |-> SelectSeq(zf.cues, LAMBDA e : e.name # NoName)]>>]

\* the zip written: the asset entries, then manifest.json
export_soundbank(cue_files, files) ==
    LET zf == export_loop(1, [assets |-> <<>>, cues |-> <<>>], cue_files, files)
    IN  [assets |-> zf.assets,
         manifest |-> <<[version |-> 1, cues |-> zf.cues]>>]

namelist(zf) ==
    {zf.assets[i].name : i \in 1..Len(zf.assets)}
        \cup (IF zf.manifest = <<>> THEN {} ELSE {ManifestName})

\* zf.open(name).read(): the entry of that name
zip_read(zf, name) ==
    LET i == CHOOSE i \in 1..Len(zf.assets) : zf.assets[i].name = name
    IN  zf.assets[i].data

\* cues.get(cue_key)
cues_get(cues, cue_key) ==
    IF \E i \in 1..Len(cues) : cues[i].key = cue_key
    THEN LET i == CHOOSE i \in 1..Len(cues) : cues[i].key = cue_key
         IN  cues[i].name
    ELSE NoName

\* the loop of import_soundbank from cue i on; b = [cue_files, files]
RECURSIVE import_loop(_, _, _, _, _)
import_loop(i, b, zf, cues, target_dir) ==
    IF i > Len(CUES) THEN b
    ELSE LET cue_key == CUES[i]
             arc_name == cues_get(cues, cue_key)
         IN  IF arc_name # NoName /\ arc_name \in namelist(zf)
             THEN LET dest == [dir |-> target_dir, stem |-> arc_name.stem,
                               suffix |-> arc_name.suffix]
                  IN  import_loop(i + 1,
                        [cue_files |-> set_cue_file(b.cue_files, cue_key, dest),
                         files |-> write_file(b.files, dest, zip_read(zf, arc_name))],
                        zf, cues, target_dir)
             ELSE import_loop(i + 1, b, zf, cues, target_dir)

\* manifest.get("cues", {}): a manifest without the key gives no entries
manifest_get_cues(manifest) ==
    IF "cues" \in DOMAIN manifest THEN manifest.cues ELSE <<>>

\* import_soundbank into the bank with cue_files, at wall-clock second stamp;
\* reading a zip without manifest.json raises KeyError before anything is done
import_soundbank(cue_files, files, zf, stamp) ==
    IF zf.manifest = <<>>
    THEN [cue_files |-> cue_files, files |-> files, raised |-> "KeyError"]
    ELSE LET cues == manifest_get_cues(zf.manifest[1])
             target_dir == base_dir \o <<"soundbank", stamp>>
             b == import_loop(1, [cue_files |-> cue_files, files |-> files],
                              zf, cues, target_dir)
         IN  [cue_files |-> b.cue_files, files |-> b.files, raised |-> ""]

\* the files a user keeps outside the bank, and the cues the model registers
UserPaths ==
    {[dir |-> <<"user">>, stem |-> "a", suffix |-> ".WAV"],
     [dir |-> <<"user">>, stem |-> "b", suffix |-> ".wav"]}

Touched == {CUES[i] : i \in 1..MaxCue}

Snapshot(cue_files, files) ==
    [c \in CueKeys |-> IF cue_files[c] # NoPath /\ exists(files, cue_files[c])
                       THEN files[cue_files[c]] ELSE 0]

---------------------------------------------------------------------------
(* History bookkeeping *)

RECURSIVE Fold(_, _)
Fold(h, evs) ==
    IF evs = <<>> THEN h
    ELSE LET e == Head(evs)
             h1 == IF e.k = "start"
                   THEN [ticks |-> <<>>, dones |-> 0, secs |-> e.secs,
                         at |-> h.at, stopped |-> FALSE]
                   ELSE IF e.k = "tick" THEN [h EXCEPT !.ticks = Append(@, e.v)]
                   ELSE IF e.k = "finished" THEN [h EXCEPT !.dones = @ + 1]
                   ELSE h
         IN  Fold(h1, Tail(evs))

HasStart(evs) == \E i \in 1..Len(evs) : evs[i].k = "start"

\* r is the program state a handler returns; name is the handler
Commit(r, name) ==
    /\ engine' = r.engine
    /\ win' = r.win
    /\ out' = r.out
    /\ handler' = name
    /\ hist' = LET h == Fold(hist, r.out)
               IN  [h EXCEPT !.at = IF HasStart(r.out) THEN now ELSE @,
                             !.stopped = IF name = "stop" THEN TRUE ELSE @]
    /\ UNCHANGED <<now, connected>>
    /\ UNCHANGED bankvars
    /\ UNCHANGED recvars

---------------------------------------------------------------------------
(* Initial states *)

EngineInit == [remaining |-> 0, running |-> FALSE, last |-> 0, timer |-> FALSE]

WinInit == [poses |-> <<>>, current_index |-> -1, pose_info |-> <<"Idle">>,
            display |-> <<"0", "0", ":", "0", "0">>, pose_list |-> <<>>,
            auto_advance |-> TRUE]

\* RecorderController.__init__: the combo box shows the first cue, nothing
\* is being recorded
RecInit == [combo |-> CUES[1], out_path |-> NoPath, recording |-> FALSE,
            status |-> "Using system default microphone."]

HistInit == [ticks |-> <<>>, dones |-> 0, secs |-> -1, at |-> 0, stopped |-> FALSE]

InitCommon ==
    /\ now = 0
    /\ engine = EngineInit
    /\ win = WinInit
    /\ out = <<>>
    /\ handler = "init"
    /\ hist = HistInit
    /\ trace = <<>>
    /\ wall = 0
    /\ fs = <<>>
    /\ bank = EmptyBank
    /\ fresh = EmptyBank
    /\ archive = <<>>
    /\ exported = [c \in CueKeys |-> 0]
    /\ rec = RecInit

\* the application: TimerWindow.__init__ connects the signals
Init == InitCommon /\ connected = TRUE

\* a TimerEngine on its own, driven through start / stop
InitEngine == InitCommon /\ connected = FALSE

---------------------------------------------------------------------------
(* Actions *)

\* How far the clock is followed.  An engine on its own has few states and
\* is followed for two more seconds.
TimeLimit == IF connected THEN MaxNow ELSE MaxNow + 2 * Hz

\* time passes
Advance ==
    /\ now < TimeLimit
    /\ now' = now + 1
    /\ out' = <<>>
    /\ handler' = "advance"
    /\ UNCHANGED <<engine, win, connected, hist, trace>>
    /\ UNCHANGED bankvars
    /\ UNCHANGED recvars

\* the QTimer timeout callback runs
Tick ==
    /\ Commit(tick(Prog, now), "_tick")
    /\ trace' = IF trace = <<>> THEN <<>> ELSE trace \o out'

EngStart(d) ==
    /\ Commit(start(Prog, d, now), "start")
    /\ UNCHANGED trace

EngStop ==
    /\ Commit(stop(Prog), "stop")
    /\ UNCHANGED trace

AddPose(m, s) ==
    /\ Len(win.poses) < MaxPoses
    /\ Commit(add_pose(Log(Prog, Call(m, s)), m, s), "add_pose")
    /\ trace' = <<>>

StartSession ==
    /\ Commit(start_session(Prog, now), "start_session")
    /\ trace' = out'

NextPose ==
    /\ Commit(next_pose(Prog, now), "next_pose")
    /\ trace' = IF trace = <<>> THEN <<>> ELSE trace \o out'

\* the user flips the Auto-Advance check box
ToggleAuto ==
    /\ Commit([Prog EXCEPT !.win.auto_advance = ~@], "toggle")
    /\ trace' = <<>>

Next ==
    \/ Advance
    \/ Tick
    \/ \E m \in 0..MaxMin, s \in 0..MaxSec : AddPose(m, s)
    \/ StartSession
    \/ NextPose
    \/ ToggleAuto

Spec == Init /\ [][Next]_vars

NextEngine ==
    \/ Advance
    \/ Tick
    \/ \E d \in Durs : EngStart(d)
    \/ EngStop

SpecEngine == InitEngine /\ [][NextEngine]_vars

\* A session the user starts and then leaves alone.  While the QTimer is
\* active its callback runs at the latest MaxGap clock units after the last
\* decrement, so time passes only up to that point before the callback runs.
MaxGap == 2 * Hz

NotStarted == win.current_index = -1

AdvanceAuto ==
    /\ engine.timer
    /\ now - engine.last < MaxGap
    /\ now' = now + 1
    /\ out' = <<>>
    /\ handler' = "advance"
    /\ UNCHANGED <<engine, win, connected, hist, trace>>
    /\ UNCHANGED bankvars
    /\ UNCHANGED recvars

NextAuto ==
    \/ AdvanceAuto
    \/ Tick
    \/ NotStarted /\ \E s \in Durs : AddPose(0, s)
    \/ NotStarted /\ ToggleAuto
    \/ NotStarted /\ StartSession

SpecAuto ==
    Init /\ [][NextAuto]_vars /\ WF_vars(Tick) /\ WF_vars(AdvanceAuto)

---------------------------------------------------------------------------
(* SoundBank: SpecBank *)

\* a second of wall-clock time passes
Tock ==
    /\ wall < MaxWall
    /\ wall' = wall + 1
    /\ handler' = "bank"
    /\ UNCHANGED <<fs, bank, fresh, archive, exported>>
    /\ UNCHANGED timervars
    /\ UNCHANGED recvars

\* a file outside the bank is written or removed
WriteFile(path, data) ==
    /\ fs' = write_file(fs, path, data)
    /\ handler' = "bank"
    /\ UNCHANGED <<wall, bank, fresh, archive, exported>>
    /\ UNCHANGED timervars
    /\ UNCHANGED recvars

RemoveFile(path) ==
    /\ exists(fs, path)
    /\ fs' = remove_file(fs, path)
    /\ handler' = "bank"
    /\ UNCHANGED <<wall, bank, fresh, archive, exported>>
    /\ UNCHANGED timervars
    /\ UNCHANGED recvars

SetCueFile(cue_key, path) ==
    /\ bank' = set_cue_file(bank, cue_key, path)
    /\ handler' = "bank"
    /\ UNCHANGED <<wall, fs, fresh, archive, exported>>
    /\ UNCHANGED timervars
    /\ UNCHANGED recvars

Export ==
    /\ archive' = <<export_soundbank(bank, fs)>>
    /\ exported' = Snapshot(bank, fs)
    /\ handler' = "export"
    /\ UNCHANGED <<wall, fs, bank, fresh>>
    /\ UNCHANGED timervars
    /\ UNCHANGED recvars

\* a new SoundBank, created for the purpose, imports the archive last written
Import ==
    /\ archive # <<>>
    /\ LET r == import_soundbank(EmptyBank, fs, archive[1], wall)
       IN  /\ fresh' = r.cue_files
           /\ fs' = r.files
    /\ handler' = "import"
    /\ UNCHANGED <<wall, bank, archive, exported>>
    /\ UNCHANGED timervars
    /\ UNCHANGED recvars

NextBank ==
    \/ Tock
    \/ \E path \in UserPaths, data \in 1..MaxByte : WriteFile(path, data)
    \/ \E path \in UserPaths : RemoveFile(path)
    \/ \E c \in Touched, path \in UserPaths \cup {NoPath} : SetCueFile(c, path)
    \/ Export
    \/ Import

SpecBank == Init /\ [][NextBank]_vars

---------------------------------------------------------------------------
(* Helpers for the properties *)

Last(s) == s[Len(s)]

\* the sequence hi, hi - 1, ..., lo (empty when hi < lo)
Countdown(hi, lo) == [i \in 1..(hi - lo + 1) |-> hi + 1 - i]

StrictlyDecreasing(s) == \A i \in 1..(Len(s) - 1) : s[i] > s[i + 1]

Emits(evs, kind) == \E i \in 1..Len(evs) : evs[i].k = kind

\* whole seconds the sampling callback would see elapsed right now
Elapsed == (now - engine.last) \div Hz

---------------------------------------------------------------------------
(* TimerEngine on its own: SpecEngine *)

\* C1 as stated: an uninterrupted countdown started with d emits exactly the
\* d ticks d-1, ..., 0 and then one completion.
C1_Original ==
    (hist.secs >= 0 /\ ~hist.stopped)
        => /\ Len(hist.ticks) <= hist.secs
           /\ hist.ticks = SubSeq(Countdown(hist.secs - 1, 0), 1, Len(hist.ticks))
           /\ hist.dones >= 1
                 => (hist.ticks = Countdown(hist.secs - 1, 0) /\ hist.dones = 1)

\* parts of the amended C1
C1_Shape ==
    hist.secs >= 0 =>
        /\ Len(hist.ticks) >= 1
        /\ hist.ticks[1] = hist.secs
        /\ StrictlyDecreasing(hist.ticks)
        /\ \A i \in 2..(Len(hist.ticks) - 1) : hist.ticks[i] > 0
        /\ Last(hist.ticks) = engine.remaining
        /\ hist.dones \in {0, 1}
        /\ hist.dones = 1 <=> (Len(hist.ticks) >= 2 /\ Last(hist.ticks) <= 0)
        /\ (hist.dones = 1 /\ hist.secs >= 1
                /\ \A i \in 1..(Len(hist.ticks) - 1) :
                        hist.ticks[i + 1] = hist.ticks[i] - 1)
              => hist.ticks = Countdown(hist.secs, 0)

C1_Step ==
    /\ (engine.running /\ handler' = "_tick" /\ Elapsed >= 1)
          => /\ hist'.ticks = Append(hist.ticks, engine.remaining - Elapsed)
             /\ hist'.dones = IF engine.remaining - Elapsed <= 0 THEN 1 ELSE 0
    /\ (hist.dones = 1 /\ handler' # "start")
          => (hist'.ticks = hist.ticks /\ hist'.dones = 1 /\ out' = <<>>)

\* C1 (amended): start(d) emits the tick d at once; left uninterrupted, every
\* sampling callback that sees k >= 1 whole elapsed seconds emits one tick
\* carrying the previous value minus k; the first tick <= 0 after the initial
\* one is followed by exactly one completion and nothing is emitted after it
\* until the next start; with decrements of one the ticks of a countdown
\* started with d >= 1 are exactly d, d-1, ..., 0.
C1_Countdown == []C1_Shape /\ [][C1_Step]_vars

\* a countdown of MaxDur ran to its completion in steps of one second
C1_Witness ==
    /\ hist.secs = MaxDur /\ ~hist.stopped /\ hist.dones = 1
    /\ hist.ticks = Countdown(MaxDur, 0)
    /\ handler = "_tick"

\* parts of C2
C2_Inv ==
    /\ hist.dones \in {0, 1}
    /\ hist.dones = 1 => (engine.remaining <= 0 /\ ~engine.running /\ ~engine.timer)
    /\ Emits(out, "finished")
          => /\ handler = "_tick"
             /\ out = <<Tk(engine.remaining), Done>>
             /\ engine.remaining <= 0 /\ ~engine.running /\ ~engine.timer

C2_Step ==
    (hist.dones = 1 /\ ~Emits(out', "start"))
        => (out' = <<>> /\ hist'.dones = 1 /\ hist'.ticks = hist.ticks)

\* C2: at most one completion per start; a completion is emitted only with
\* remaining <= 0, leaving running false and the QTimer stopped; nothing is
\* emitted between a completion and the next start.
C2_OneCompletion == []C2_Inv /\ [][C2_Step]_vars

\* a sample that saw two whole seconds completed the countdown, and the
\* callback has run again since
C2_Witness ==
    /\ hist.dones = 1 /\ engine.remaining < 0 /\ hist.secs >= 1
    /\ handler = "_tick" /\ out = <<>> /\ Elapsed >= 1

\* parts of C3
C3_Inv == hist.stopped => (out = <<>> /\ ~engine.running /\ ~engine.timer)

C3_Step ==
    (hist.stopped /\ hist'.stopped)
        => (hist'.ticks = hist.ticks /\ hist'.dones = hist.dones
                /\ engine'.remaining = engine.remaining)

\* C3: after stop() nothing is emitted until the next start, however often
\* the callback runs and however much time passes.
C3_StopSilences == []C3_Inv /\ [][C3_Step]_vars

\* a countdown was stopped early; more time than it had left went by and the
\* callback ran
C3_Witness ==
    /\ hist.stopped /\ hist.dones = 0 /\ engine.remaining > 0
    /\ handler = "_tick" /\ Elapsed >= engine.remaining

\* parts of C4
C4_Inv ==
    /\ engine.running
          => \A d \in Durs : start(Prog, d, now) = start(stop(Prog), d, now)
    /\ handler = "start"
          => /\ engine = [remaining |-> hist.secs, running |-> TRUE,
                          last |-> now, timer |-> TRUE]
             /\ out = <<St(hist.secs), Tk(hist.secs)>>
             /\ hist.ticks = <<hist.secs>> /\ hist.dones = 0
    /\ hist.dones = 1 => engine.last - hist.at >= hist.secs * Hz
    /\ engine.running = engine.timer

C4_Step ==
    (engine.running /\ handler' = "start")
        => /\ engine' = start(stop(Prog), hist'.secs, now).engine
           /\ out' = start(stop(Prog), hist'.secs, now).out

---------------------------------------------------------------------------
(* The session logic of TimerWindow *)

Idle == <<"Idle">>
SessionComplete == <<"Session Complete">>
PoseFinishedManual == <<"Pose Finished (Manual Advance)">>
PoseActive(i) == <<"Pose", i + 1>>

\* what an observer sees: ticks, completions and cue requests
Observed(evs) == SelectSeq(evs, LAMBDA e : e.k \in {"tick", "finished", "play"})

RECURSIVE Flatten(_)
Flatten(ss) == IF ss = <<>> THEN <<>> ELSE Head(ss) \o Flatten(Tail(ss))

\* the run of C5 for a pose list: session_start, then per pose pose_start,
\* ticks d, d-1, ..., 0, one completion, over
ExpectedRun(poses) ==
    <<Cue("session_start")>> \o
    Flatten([i \in 1..Len(poses) |->
                <<Cue("pose_start")>>
                \o [j \in 1..(poses[i] + 1) |-> Tk(poses[i] + 1 - j)]
                \o <<Done, Cue("over")>>])

\* two consecutive ticks more than one second apart
Skips(evs) ==
    \E i \in 1..(Len(evs) - 1) :
        evs[i].k = "tick" /\ evs[i + 1].k = "tick" /\ evs[i].v - evs[i + 1].v >= 2

\* Reads a run against the pose list: session_start, then per pose
\* pose_start, the tick d_i, strictly smaller ticks up to the first one <= 0,
\* one completion, over.  Gives the place the run has reached.
RECURSIVE Scan(_, _, _, _, _)
Scan(evs, poses, i, phase, v) ==
    IF evs = <<>> THEN [ok |-> TRUE, i |-> i, phase |-> phase, v |-> v]
    ELSE LET e == Head(evs)
             rest == Tail(evs)
             bad == [ok |-> FALSE, i |-> i, phase |-> phase, v |-> v]
         IN  CASE phase = "session" ->
                    IF e = Cue("session_start")
                    THEN Scan(rest, poses, 1, "pose", v) ELSE bad
               [] phase = "pose" ->
                    IF e = Cue("pose_start") /\ i <= Len(poses)
                    THEN Scan(rest, poses, i, "first", v) ELSE bad
               [] phase = "first" ->
                    IF e = Tk(poses[i])
                    THEN Scan(rest, poses, i, "count", poses[i]) ELSE bad
               [] phase = "count" ->
                    IF e.k = "tick" /\ e.v < v
                    THEN Scan(rest, poses, i,
                              IF e.v <= 0 THEN "finished" ELSE "count", e.v)
                    ELSE bad
               [] phase = "finished" ->
                    IF e = Done THEN Scan(rest, poses, i, "over", v) ELSE bad
               [] phase = "over" ->
                    IF e = Cue("over")
                    THEN IF i < Len(poses)
                         THEN Scan(rest, poses, i + 1, "pose", v)
                         ELSE Scan(rest, poses, i, "end", v)
                    ELSE bad
               [] OTHER -> bad

Passive == trace # <<>> /\ win.auto_advance

\* C5 as stated: a session left alone with auto-advance on ends in Session
\* Complete having produced exactly session_start and, per pose, pose_start,
\* ticks d, d-1, ..., 0, one completion, over.
C5_Original ==
    (Passive /\ win.pose_info = SessionComplete)
        => Observed(trace) = ExpectedRun(win.poses)

\* parts of the amended C5
C5_Inv ==
    Passive =>
        LET r == Scan(Observed(trace), win.poses, 0, "session", 0)
        IN  /\ r.ok
            /\ r.phase \in {"count", "end"}
            /\ win.current_index = r.i - 1
            /\ r.phase = "count"
                  => /\ engine.running /\ engine.timer
                     /\ engine.remaining = r.v
                     /\ win.pose_info = PoseActive(win.current_index)
            /\ r.phase = "end"
                  => /\ ~engine.running /\ ~engine.timer
                     /\ win.pose_info = SessionComplete
                     /\ win.current_index = Len(win.poses) - 1
                     /\ ~Skips(trace) => Observed(trace) = ExpectedRun(win.poses)

C5_Step ==
    /\ (Passive /\ win.pose_info = SessionComplete)
          => (out' = <<>> /\ trace' = trace /\ engine' = engine /\ win' = win)
    /\ (Passive /\ engine.running /\ handler' = "_tick" /\ Elapsed >= 1)
          => /\ Len(out') >= 1
             /\ out'[1] = Tk(engine.remaining - Elapsed)

\* C5 (amended): with auto-advance on and no user action after
\* start_session the run is session_start, then for each pose in list order
\* pose_start, the tick d_i, further ticks each lower than the one before by
\* the whole seconds elapsed, ending with the first tick <= 0, one
\* completion, over (exactly d_i, ..., 0 when no two consecutive ticks are
\* more than one second apart); after the last over the session is in
\* Session Complete with current_index = n-1, the timer stopped and nothing
\* more emitted; with the callback firing fairly that state is reached.
C5_PassiveRun ==
    /\ []C5_Inv
    /\ [][C5_Step]_vars
    /\ (Passive ~> (win.pose_info = SessionComplete))

\* two poses of different length ran to the end without a skipped second
C5_Witness ==
    /\ Passive /\ win.pose_info = SessionComplete
    /\ win.poses = <<MaxDur, 1>>
    /\ Observed(trace) = ExpectedRun(win.poses)

\* parts of C6
C6_Step ==
    /\ (handler' = "_tick" /\ Emits(out', "finished") /\ ~win.auto_advance)
          => /\ out' = <<Tk(engine'.remaining), Done, Cue("over")>>
             /\ win'.pose_info = PoseFinishedManual
             /\ win'.current_index = win.current_index
             /\ ~engine'.running /\ ~engine'.timer
    /\ (win.pose_info = PoseFinishedManual /\ handler' \in {"_tick", "advance"})
          => (out' = <<>> /\ engine' = engine /\ win' = win)
    /\ (handler' = "next_pose" /\ win.pose_info = PoseFinishedManual
            /\ win.current_index < Len(win.poses) - 1)
          => /\ win'.current_index = win.current_index + 1
             /\ win'.pose_info = PoseActive(win'.current_index)
             /\ win'.poses = win.poses
             /\ Observed(out') = <<Cue("pose_start"),
                                   Tk(win.poses[win'.current_index + 1])>>
             /\ engine' = [remaining |-> win.poses[win'.current_index + 1],
                           running |-> TRUE, last |-> now, timer |-> TRUE]
    /\ (handler' = "next_pose" /\ win.current_index = Len(win.poses) - 1)
          => (out' = <<>> /\ engine' = engine /\ win' = win)

C6_Inv ==
    win.pose_info = PoseFinishedManual
        => (~engine.running /\ ~engine.timer /\ engine.remaining <= 0
                /\ win.current_index \in 0..(Len(win.poses) - 1))

\* C6: with auto-advance off a completion plays over and leaves the session
\* in Pose Finished (Manual Advance), current_index unchanged, timer stopped
\* and silent; next_pose from there with a next pose moves current_index on
\* by one, plays pose_start and starts that pose's countdown; next_pose at
\* the last index changes nothing, plays nothing and starts nothing.
C6_ManualAdvance == []C6_Inv /\ [][C6_Step]_vars

\* the first pose completed with auto-advance off and next_pose then started
\* the second pose
C6_Witness ==
    /\ ~win.auto_advance /\ handler = "next_pose"
    /\ Len(trace) >= 2 /\ win.current_index = 1
    /\ Observed(trace) = <<Cue("session_start"), Cue("pose_start"), Tk(1), Tk(0),
                            Done, Cue("over"), Cue("pose_start"), Tk(win.poses[2])>>

\* parts of C7
C7_Step ==
    /\ (handler' = "start_session" /\ win.poses = <<>>)
          => (out' = <<>> /\ engine' = engine /\ win' = win)
    /\ (handler' = "start_session" /\ win.poses # <<>>)
          => /\ win'.current_index = 0
             /\ win'.poses = win.poses
             /\ win'.pose_info = PoseActive(0)
             /\ Observed(out') = <<Cue("session_start"), Cue("pose_start"),
                                   Tk(win.poses[1])>>
             /\ engine' = [remaining |-> win.poses[1], running |-> TRUE,
                           last |-> now, timer |-> TRUE]
             /\ hist'.ticks = <<win.poses[1]>> /\ hist'.dones = 0

\* C7: start_session on an empty pose list changes nothing; otherwise, from
\* any state, it sets current_index to 0, plays session_start then
\* pose_start and starts the engine with the first pose's duration.
C7_StartSession == [][C7_Step]_vars

\* a session was started again later, with the whole pose list present
C7_Witness ==
    /\ handler = "start_session" /\ engine.running
    /\ Len(win.poses) = MaxPoses /\ now > 0 /\ engine.last = now
    /\ win.current_index = 0

\* C8 as stated: next_pose before any start_session (current_index = -1)
\* starts no countdown, leaves current_index alone and plays no cue.
C8_Original ==
    [][(handler' = "next_pose" /\ win.current_index = -1)
          => (out' = <<>> /\ engine' = engine /\ win' = win)]_vars

\* parts of C9
C9_Inv ==
    /\ \A i \in 1..Len(win.poses) : win.poses[i] > 0
    /\ Len(win.pose_list) = Len(win.poses)

C9_Step ==
    /\ Len(win'.poses) >= Len(win.poses)
    /\ SubSeq(win'.poses, 1, Len(win.poses)) = win.poses
    /\ Len(win'.poses) > Len(win.poses) => handler' = "add_pose"
    /\ handler' = "add_pose"
          => LET total == out'[1].min * 60 + out'[1].sec
             IN  /\ engine' = engine
                 /\ win'.current_index = win.current_index
                 /\ total <= 0 => win' = win
                 /\ total > 0 => win'.poses = Append(win.poses, total)

\* C9: add_pose with a total <= 0 changes nothing, otherwise appends exactly
\* that total; the pose list only ever grows by append and holds only
\* durations > 0.
C9_AppendOnly == []C9_Inv /\ [][C9_Step]_vars

\* a pose of a minute and more was appended while a countdown was running
C9_Witness ==
    /\ handler = "add_pose" /\ engine.running
    /\ Len(win.poses) = 2 /\ win.poses[2] = 60 + MaxSec

---------------------------------------------------------------------------
(* SoundBank archives *)

\* parts of C10
C10_Step ==
    handler' = "import"
        => \A c \in CueKeys :
              IF exported[c] # 0
              THEN /\ fresh'[c] # NoPath
                   /\ exists(fs', fresh'[c])
                   /\ fs'[fresh'[c]] = exported[c]
              ELSE fresh'[c] = NoPath

C10_Inv ==
    archive # <<>> =>
        \A c \in CueKeys :
            LET name == cues_get(archive[1].manifest[1].cues, c)
            IN  exported[c] # 0 <=> name # NoName

\* C10: exporting a bank and importing the archive into a fresh bank
\* registers, for every cue exported with an asset, a file with the exported
\* content, and leaves every other cue unregistered.
C10_RoundTrip == []C10_Inv /\ [][C10_Step]_vars

\* a fresh bank imported an asset that was exported from a file with an
\* upper-case suffix; the file has since been overwritten with other content
C10_Witness ==
    /\ handler = "import"
    /\ \E c \in Touched :
          /\ exported[c] # 0
          /\ fresh[c] = [dir |-> base_dir \o <<"soundbank", wall>>, stem |-> c,
                         suffix |-> ".wav"]
          /\ fs[fresh[c]] = exported[c]
          /\ bank[c] # NoPath /\ bank[c].suffix = ".WAV"
          /\ exists(fs, bank[c]) /\ fs[bank[c]] # exported[c]
    /\ \A c \in CueKeys \ Touched : fresh[c] = NoPath

---------------------------------------------------------------------------
(* Loading archives that were not written by export_soundbank: SpecLoad *)

\* the cues whose manifest entries the archives at hand vary
LoadCues == {CUES[i] : i \in 1..(MaxCue + 1)}

\* what an archive's manifest can hold for a cue: no key, null, the name of
\* an entry of the container, a name that is no entry of the container
EntryKinds == {"absent", "null", "present", "dangling"}

ArcName(c) == [stem |-> c, suffix |-> ".wav"]

\* the archive whose manifest holds, for every cue of LoadCues, an entry of
\* the kind given; every asset holds the content MaxByte
Archive(kind) ==
    LET Kind(i) == IF CUES[i] \in LoadCues THEN kind[CUES[i]] ELSE "absent"
        all == [i \in 1..Len(CUES) |->
                   [key |-> CUES[i],
                    name |-> IF Kind(i) = "null" THEN NoName ELSE ArcName(CUES[i]),
                    kind |-> Kind(i)]]
        kept == SelectSeq(all, LAMBDA e : e.kind # "absent")
        held == SelectSeq(all, LAMBDA e : e.kind = "present")
    IN  [assets |-> [i \in 1..Len(held) |-> [name |-> held[i].name, data |-> MaxByte]],
         manifest |-> <<[version |-> 1,
                         cues |-> [i \in 1..Len(kept) |->
                                      [key |-> kept[i].key, name |-> kept[i].name]]]>>]

\* archives whose manifest is missing, or holds no cues mapping
BareArchives ==
    {[assets |-> <<>>, manifest |-> <<>>],
     [assets |-> <<>>, manifest |-> <<[version |-> 1]>>]}

\* the user picks a .soundbank file that came from elsewhere
PickArchive(zf) ==
    /\ archive' = <<zf>>
    /\ handler' = "bank"
    /\ UNCHANGED <<wall, fs, bank, fresh, exported>>
    /\ UNCHANGED timervars
    /\ UNCHANGED recvars

\* TimerWindow.load_soundbank: the application's bank imports the archive
LoadSoundbank ==
    /\ archive # <<>>
    /\ LET r == import_soundbank(bank, fs, archive[1], wall)
       IN  /\ bank' = r.cue_files
           /\ fs' = r.files
           /\ handler' = IF r.raised = "" THEN "load_soundbank" ELSE r.raised
    /\ UNCHANGED <<wall, fresh, archive, exported>>
    /\ UNCHANGED timervars
    /\ UNCHANGED recvars

NextLoad ==
    \/ Tock
    \/ \E path \in UserPaths : WriteFile(path, 1)
    \/ \E c \in LoadCues, path \in UserPaths \cup {NoPath} : SetCueFile(c, path)
    \/ \E kind \in [LoadCues -> EntryKinds] : PickArchive(Archive(kind))
    \/ \E zf \in BareArchives : PickArchive(zf)
    \/ LoadSoundbank

SpecLoad == Init /\ [][NextLoad]_vars

\* the manifest's entry for a cue (NoName when null or absent), and the
\* place of the first cue in CUES whose entry names no entry of the container
ManifestEntry(zf, c) ==
    IF zf.manifest = <<>> THEN NoName
    ELSE cues_get(manifest_get_cues(zf.manifest[1]), c)

Dangling(zf, c) ==
    ManifestEntry(zf, c) # NoName /\ ManifestEntry(zf, c) \notin namelist(zf)

FirstDangling(zf) ==
    IF \E i \in 1..Len(CUES) : Dangling(zf, CUES[i])
    THEN CHOOSE i \in 1..Len(CUES) :
            /\ Dangling(zf, CUES[i])
            /\ \A j \in 1..(i - 1) : ~Dangling(zf, CUES[j])
    ELSE 0

\* C11 as stated: an import leaves the registration and the file of every cue
\* whose manifest entry is null or absent as they were, and replaces the
\* registration of every other cue by the extracted asset.
C11_Original ==
    [][handler' = "load_soundbank"
          => \A c \in CueKeys :
                LET name == ManifestEntry(archive[1], c)
                    dest == [dir |-> base_dir \o <<"soundbank", wall>>,
                             stem |-> name.stem, suffix |-> name.suffix]
                IN  IF name = NoName
                    THEN /\ bank'[c] = bank[c]
                         /\ (bank[c] # NoPath /\ exists(fs, bank[c]))
                               => (exists(fs', bank[c]) /\ fs'[bank[c]] = fs[bank[c]])
                    ELSE /\ bank'[c] = dest
                         /\ exists(fs', dest)]_vars

\* C12 as stated: an import of an archive whose manifest is missing, holds no
\* cues mapping or names a file that is no entry of the container fails, and
\* registers no cue at or after the first such name.
C12_Original ==
    [][(handler' \in {"load_soundbank", "KeyError"}
            /\ (\/ archive[1].manifest = <<>>
                \/ "cues" \notin DOMAIN archive[1].manifest[1]
                \/ FirstDangling(archive[1]) # 0))
          => /\ handler' # "load_soundbank"
             /\ \A i \in 1..Len(CUES) :
                   (FirstDangling(archive[1]) # 0 /\ i >= FirstDangling(archive[1]))
                      => bank'[CUES[i]] = bank[CUES[i]]]_vars

---------------------------------------------------------------------------
(* The archives export_soundbank writes: SpecBank *)

\* parts of C13
C13_Inv ==
    archive # <<>> =>
        LET zf == archive[1]
        IN  /\ Len(zf.manifest) = 1
            /\ ManifestName \in namelist(zf)
            /\ Len(zf.manifest[1].cues) = Len(CUES)
            /\ \A i \in 1..Len(CUES) :
                  LET e == zf.manifest[1].cues[i]
                  IN  /\ e.key = CUES[i]
                      /\ e.name # NoName <=> exported[CUES[i]] # 0
                      /\ e.name # NoName
                            => /\ e.name.stem = CUES[i]
                               /\ lower(e.name.suffix) = e.name.suffix
                               /\ \E j \in 1..Len(zf.assets) :
                                     /\ zf.assets[j].name = e.name
                                     /\ zf.assets[j].data = exported[CUES[i]]
                                     /\ \A k \in 1..Len(zf.assets) :
                                           zf.assets[k].name = e.name => k = j

C13_Step ==
    /\ handler' = "export"
          => \A i \in 1..Len(CUES) :
                LET src == bank[CUES[i]]
                    e == archive'[1].manifest[1].cues[i]
                IN  IF src # NoPath /\ exists(fs, src)
                    THEN /\ e.name # NoName
                         /\ e.name.suffix = lower(src.suffix)
                         /\ exported'[CUES[i]] = fs[src]
                    ELSE e.name = NoName /\ exported'[CUES[i]] = 0
    /\ (handler = "export" /\ handler' = "export") => archive' = archive

\* C13: every archive written holds a manifest.json whose cues mapping has
\* exactly the six cue ids in the order of CUES; an entry is non-null exactly
\* when the cue has a registered file that exists at export time, and is then
\* the cue id followed by the lower-cased suffix, naming an entry of the
\* container that holds the file's content; the manifest is written also
\* when no cue has a file, and exporting again with nothing changed writes
\* the same archive.
C13_Manifest == []C13_Inv /\ [][C13_Step]_vars

\* an export of a bank whose only asset has an upper-case suffix, the other
\* five cues being empty
C13_Witness ==
    /\ handler = "export"
    /\ Len(archive[1].assets) = 1
    /\ \E c \in Touched :
          /\ bank[c] # NoPath /\ bank[c].suffix = ".WAV"
          /\ cues_get(archive[1].manifest[1].cues, c) = [stem |-> c, suffix |-> ".wav"]
          /\ \A c2 \in CueKeys \ {c} :
                cues_get(archive[1].manifest[1].cues, c2) = NoName

---------------------------------------------------------------------------
(* The labels of poses and of the countdown: SpecLabel *)

\* the seconds spin box goes up to 59
SpinSecMax == 59

\* tick_signal delivers secs to update_display
Show(t) ==
    /\ Commit(update_display(Log(Prog, [k |-> "show", secs |-> t]), t),
              "update_display")
    /\ UNCHANGED trace

NextLabel ==
    \/ \E t \in (-MaxDur)..MaxDur : Show(t)
    \/ \E m \in 0..MaxLabelMin, s \in 0..SpinSecMax :
          win.poses = <<>> /\ AddPose(m, s)

SpecLabel == Init /\ [][NextLabel]_vars

IsDigit(c) == \E d \in 0..9 : Digit(d) = c

DigitVal(c) == CHOOSE d \in 0..9 : Digit(d) = c

RECURSIVE Num(_)
Num(cs) ==
    IF cs = <<>> THEN 0
    ELSE 10 * Num(SubSeq(cs, 1, Len(cs) - 1)) + DigitVal(Last(cs))

AllDigits(cs) == cs # <<>> /\ \A i \in 1..Len(cs) : IsDigit(cs[i])

\* label reads MM:SS for t below an hour and H:MM:SS from an hour on, the
\* hours without a leading zero
Reads(label, t) ==
    LET n == Len(label)
    IN  /\ n >= 5
        /\ label[n - 2] = ":"
        /\ AllDigits(SubSeq(label, n - 1, n))
        /\ Num(SubSeq(label, n - 1, n)) = t % 60
        /\ AllDigits(SubSeq(label, n - 4, n - 3))
        /\ Num(SubSeq(label, n - 4, n - 3)) = (t % 3600) \div 60
        /\ IF t < 3600 THEN n = 5
           ELSE /\ n >= 7
                /\ label[n - 5] = ":"
                /\ AllDigits(SubSeq(label, 1, n - 6))
                /\ label[1] # "0"
                /\ Num(SubSeq(label, 1, n - 6)) = t \div 3600

\* C14 as stated: below an hour the label is M:SS with the minutes not
\* padded (59 -> "0:59", 90 -> "1:30"), from an hour on H:MM:SS.
C14_Original ==
    \A i \in 1..Len(win.poses) :
        LET t == win.poses[i]
        IN  /\ t < 3600
               => win.pose_list[i] = Dec(t \div 60) \o <<":">> \o Pad2(t % 60)
            /\ t = 59 => win.pose_list[i] = <<"0", ":", "5", "9">>
            /\ t = 90 => win.pose_list[i] = <<"1", ":", "3", "0">>
            /\ t = 3661 => win.pose_list[i] = <<"1", ":", "0", "1", ":", "0", "1">>

\* C14 (amended): the label for a total of t seconds is MM:SS with the
\* minutes zero-padded to two digits when t < 3600 (59 -> "00:59",
\* 90 -> "01:30") and H:MM:SS with the hours not padded when t >= 3600
\* (3661 -> "1:01:01"); the hour component is present only when t >= 3600,
\* and a negative t is rendered as 0.
C14_Label ==
    /\ Len(win.pose_list) = Len(win.poses)
    /\ \A i \in 1..Len(win.poses) :
          LET t == win.poses[i]
          IN  /\ Reads(win.pose_list[i], t)
              /\ t = 59 => win.pose_list[i] = <<"0", "0", ":", "5", "9">>
              /\ t = 90 => win.pose_list[i] = <<"0", "1", ":", "3", "0">>
              /\ t = 3661
                    => win.pose_list[i] = <<"1", ":", "0", "1", ":", "0", "1">>
    /\ handler = "update_display"
          => /\ out[1].secs >= 0 => Reads(win.display, out[1].secs)
             /\ out[1].secs < 0 => win.display = <<"0", "0", ":", "0", "0">>

\* a pose of 1:01:01 is in the list and the display was given a negative
\* number of seconds
C14_Witness ==
    /\ win.poses = <<3661>>
    /\ win.pose_list = << <<"1", ":", "0", "1", ":", "0", "1">> >>
    /\ handler = "update_display" /\ out[1].secs < 0
    /\ win.display = <<"0", "0", ":", "0", "0">>

---------------------------------------------------------------------------
(* The countdown against the clock: SpecEngine *)

\* C15 as stated: a countdown started with 0 completes on the first sampling
\* callback after the start, however little time has passed, with exactly
\* one completion, and none of its ticks carries a negative value.
C15_Original ==
    [][(hist.secs = 0 /\ ~hist.stopped /\ hist.dones = 0 /\ engine.running
            /\ handler' = "_tick")
          => /\ hist'.dones = 1
             /\ \A i \in 1..Len(hist'.ticks) : hist'.ticks[i] >= 0]_vars

\* C16 as stated: after every sampling callback of an uninterrupted countdown
\* started with d, the seconds taken off so far equal the whole seconds of
\* clock time since the start, and for d > 0 the completion has been emitted
\* exactly when d seconds or more have passed since the start.
C16_Original ==
    (handler = "_tick" /\ hist.secs >= 0 /\ ~hist.stopped)
        => /\ (engine.running \/ Emits(out, "finished"))
                 => hist.secs - engine.remaining = (now - hist.at) \div Hz
           /\ hist.secs > 0
                 => (hist.dones = 1 <=> now - hist.at >= hist.secs * Hz)

---------------------------------------------------------------------------
(* The recorder: SpecRec *)

\* the cues the user selects in the combo box
RecCues == {CUES[i] : i \in 1..(MaxCue + 1)}

\* the user selects a cue in cue_combo
SelectCue(c) ==
    /\ rec' = [rec EXCEPT !.combo = c]
    /\ handler' = "select_cue"
    /\ UNCHANGED timervars
    /\ UNCHANGED bankvars

\* btn_record is enabled while nothing is being recorded; the file is named
\* after the cue selected now and int(time.time())
StartRecording ==
    /\ ~rec.recording
    /\ LET cue_key == rec.combo
           out_path == [dir |-> base_dir, stem |-> cue_key, stamp |-> wall,
                        suffix |-> ".wav"]
       IN  rec' = [rec EXCEPT !.out_path = out_path, !.recording = TRUE,
                              !.status = "Recording..."]
    /\ handler' = "start_recording"
    /\ UNCHANGED timervars
    /\ UNCHANGED bankvars

\* btn_stop is enabled while recording; recorder.stop() has written the
\* file (saved) or not
StopRecording(saved, data) ==
    /\ rec.recording
    /\ LET cue_key == rec.combo
           out_path == rec.out_path
           files == IF saved THEN write_file(fs, out_path, data) ELSE fs
       IN  /\ fs' = files
           /\ IF exists(files, out_path)
              THEN /\ bank' = set_cue_file(bank, cue_key, out_path)
                   /\ rec' = [rec EXCEPT !.recording = FALSE, !.status = "Saved"]
              ELSE /\ bank' = bank
                   /\ rec' = [rec EXCEPT !.recording = FALSE,
                                         !.status = "Recording failed."]
    /\ handler' = "stop_recording"
    /\ UNCHANGED <<wall, fresh, archive, exported>>
    /\ UNCHANGED timervars

NextRec ==
    \/ Tock
    \/ \E c \in RecCues : SelectCue(c)
    \/ StartRecording
    \/ \E saved \in BOOLEAN, data \in 1..MaxByte : StopRecording(saved, data)

SpecRec == Init /\ [][NextRec]_vars

\* C17 as stated: when the recording's file is there after the stop, it is
\* registered against the cue the recording was started for and named after,
\* and against no other, whatever the combo box shows by then; when the file
\* is not there, no registration changes.
C17_Original ==
    [][handler' = "stop_recording"
          => IF exists(fs', rec.out_path)
             THEN bank' = [bank EXCEPT ![rec.out_path.stem] = rec.out_path]
             ELSE bank' = bank]_vars

---------------------------------------------------------------------------
(* The directories imports extract into: SpecBank *)

\* C18 as stated: an import extracts into a directory no earlier import
\* extracted into, also within the same wall-clock second, so that no file
\* an earlier import extracted is overwritten.
C18_Original ==
    [][handler' = "import"
          => /\ \A path \in DOMAIN fs :
                   path.dir # base_dir \o <<"soundbank", wall>>
             /\ \A c \in CueKeys :
                   fresh'[c] # NoPath => ~exists(fs, fresh'[c])]_vars

---------------------------------------------------------------------------
(* The current pose and the announcements: Spec *)

\* parts of C19
C19_Inv ==
    /\ win.current_index >= -1
    /\ win.current_index <= Len(win.poses) - 1
    /\ engine.running
          => /\ win.current_index >= 0
             /\ win.current_index < Len(win.poses)
             /\ hist.secs = win.poses[win.current_index + 1]
             /\ hist.dones = 0
             /\ engine.remaining <= win.poses[win.current_index + 1]

C19_Step ==
    /\ win'.current_index # win.current_index
          => \/ win'.current_index = 0 /\ handler' = "start_session"
             \/ /\ win'.current_index = win.current_index + 1
                /\ handler' \in {"next_pose", "_tick"}
                /\ handler' = "_tick" => (win.auto_advance /\ Emits(out', "finished"))
    /\ Emits(out', "start")
          => /\ engine'.running
             /\ \E i \in 1..Len(out') :
                   out'[i] = St(win'.poses[win'.current_index + 1])

\* C19: always -1 <= current_index <= len(poses) - 1; current_index changes
\* only by being set to 0 by start_session or by going up by exactly one in
\* next_pose or in an auto-advance; and whenever the engine is running,
\* 0 <= current_index < len(poses) and the countdown that runs was started
\* with the duration of poses[current_index].
C19_CurrentIndex == []C19_Inv /\ [][C19_Step]_vars

\* the auto-advance moved on to a second pose of another duration, whose
\* countdown is running
C19_Witness ==
    /\ engine.running /\ win.current_index = 1 /\ handler = "_tick"
    /\ win.auto_advance
    /\ win.poses[2] # win.poses[1]
    /\ hist.secs = win.poses[2]

\* the announcements of the time left: the cue and the seconds left at which
\* it is due
Announcements ==
    <<[cue |-> "five_min", at |-> 300],
      [cue |-> "one_min", at |-> 60],
      [cue |-> "thirty_sec", at |-> 30]>>

\* C20 as stated: when the countdown of a pose longer than 300, 60 or 30
\* seconds reaches that many seconds left, five_min, one_min or thirty_sec
\* is played.
C20_Original ==
    [][\A i \in 1..Len(Announcements) :
          (/\ handler' = "_tick"
           /\ out' # <<>>
           /\ out'[1] = Tk(Announcements[i].at)
           /\ hist.secs > Announcements[i].at)
             => \E j \in 1..Len(out') : out'[j] = Cue(Announcements[i].cue)]_vars

====
